---- MODULE Spec2Model ----
(***************************************************************************)
(* A model of the HPO phenotype hierarchy plugin (HPOPlugin.tsx): the      *)
(* hierarchy index built from flat parent-pointer records, the selection   *)
(* engine (getDescendants, handleNodeSelect, isNodeSelected,               *)
(* isNodePartiallySelected), the value written to the host variable, the   *)
(* view projector (visibleNodes in plain and in search mode,               *)
(* toggleExpansion, the debounce and auto-expand effects) and the load     *)
(* (the chunk loop, the loading and error renders, Try Again).             *)
(*                                                                         *)
(* src/src/HPOPlugin.tsx holds two copies of the component: lines 1-595    *)
(* (copy 1) and lines 596-1130 (copy 2).  They differ in getDescendants    *)
(* and handleNodeSelect; the variable `copy` says which one runs.          *)
(* src/unnamed/part_003 is a third variant that keeps the hierarchy as a   *)
(* tree of children arrays (getDescendantIds, findNodeById).               *)
(*                                                                         *)
(* Strings are sequences of one-character strings, so that toLowerCase and *)
(* includes are computed and not assumed.                                  *)
(***************************************************************************)
EXTENDS Integers, Sequences, FiniteSets, TLC

VARIABLES
    copy,                 \* 1 or 2: the copy of HPOPlugin.tsx; 3: part_003
    nodes,                \* useState<HPONode[]>: the node list, in input order
    expandedNodes,        \* useState<Set<string>>
    selectedNodes,        \* useState<Set<string>>
    searchTerm,           \* useState(''): the raw term
    debouncedSearchTerm,  \* useState(''): the debounced term
    timerPending,         \* searchTimeoutRef holds a live timeout
    hung,                 \* a render entered a loop that never ends
    lastOp,               \* the last handleNodeSelect call: <<checked, id>>
    trav,                 \* the traversal loop being stepped (SpecTrav)
    selectedOrder,        \* Array.from(selectedNodes): the ids as the Set lists them
    hostValue,            \* the value last written to 'hpo-phenotype-filter'
    iframeLoaded,         \* useState(false), set by the mount effect
    isLocalDev,           \* part_003: process.env.NODE_ENV === 'development'
    loading,              \* useState(true)
    error,                \* useState<string | null>(null)
    load,                 \* the load in flight: its position and fetched chunks
    timeouts,             \* the live timeouts, each with the term it captured
    lastView,             \* the last step of the view, and the state it left
    rawRows,              \* the rows of the parsed tabular source (SpecRows)
    strictLoad,           \* the load of the second run of the mount effect
    renderThrew           \* a render threw: React has unmounted the component

\* the state of the output side, and the state of the load
hostVars == <<selectedOrder, hostValue, iframeLoaded, isLocalDev>>
loadVars == <<loading, error, load>>
viewHist == <<timeouts, lastView>>

\* the parsed rows, the second call of the mount effect, the thrown render
auxVars == <<rawRows, strictLoad, renderThrew>>

vars == <<copy, nodes, expandedNodes, selectedNodes, searchTerm,
          debouncedSearchTerm, timerPending, hung, lastOp, trav,
          hostVars, loadVars, viewHist, auxVars>>

-----------------------------------------------------------------------------
(* Bounds and input data *)

\* number of records in the record set
MaxNodes == 3

\* parent_id: string | null; null is a value no string equals
Null == <<"null">>

\* TERM_ID of the i-th record (unique ids, section 3 of the specification)
IdTable ==
    << <<"h", "1">>, <<"h", "2">>, <<"H", "3">>, <<"h", "4">>, <<"h", "5">> >>

\* TERM_FULL_NAME of the i-th record
NameTable ==
    << <<"A", "b">>, <<"b", "a">>, <<"a", "B", "c">>, <<"c">>, <<"b", "b">> >>

\* a PARENT_ID that is the id of no record
DanglingId == <<"h", "9">>

Index == 1..MaxNodes

NodeIds == {IdTable[i] : i \in Index}

ParentChoices == NodeIds \cup {Null, DanglingId}

\* the search strings typed: "", "aB", "h3", "x"
Terms == {<<>>, <<"a", "B">>, <<"h", "3">>, <<"x">>}

-----------------------------------------------------------------------------
(* Strings *)

\* String.prototype.toLowerCase on one character
LowerChar(c) ==
    CASE c = "A" -> "a"
      [] c = "B" -> "b"
      [] c = "C" -> "c"
      [] c = "H" -> "h"
      [] OTHER -> c

toLowerCase(s) == [i \in 1..Len(s) |-> LowerChar(s[i])]

\* String.prototype.includes
includes(s, t) ==
    \E k \in 0..(Len(s) - Len(t)) : \A j \in 1..Len(t) : s[k + j] = t[j]

\* the quote character that stripQuotes and parseCSVLine remove
Quote == "\""

\* the white space that trim() and parseInt skip
IsSpace(c) == c = " "

RECURSIVE trimStart(_)
trimStart(str) ==
    IF str # <<>> /\ IsSpace(Head(str)) THEN trimStart(Tail(str)) ELSE str

RECURSIVE trimEnd(_)
trimEnd(str) ==
    IF str # <<>> /\ IsSpace(str[Len(str)])
    THEN trimEnd(SubSeq(str, 1, Len(str) - 1))
    ELSE str

\* String.prototype.trim
trim(str) == trimEnd(trimStart(str))

\* the decimal digits
Digits == <<"0", "1", "2", "3", "4", "5", "6", "7", "8", "9">>

IsDigit(c) == \E k \in 1..Len(Digits) : Digits[k] = c

DigitVal(c) == (CHOOSE k \in 1..Len(Digits) : Digits[k] = c) - 1

-----------------------------------------------------------------------------
(* Hierarchy index *)

\* has_children set on the node that has a parent, not on the parent
HasChildrenFlagOnChild(parents, id) ==
    \E j \in Index : IdTable[j] = id /\ parents[j] \in {IdTable[k] : k \in Index}

\* fetchData: has_children of the record with id `id`, from the parent ids
\* of the processed nodes
HasChildrenFlag(parents, id) ==
    \E j \in Index : parents[j] # Null /\ parents[j] = id

\* fetchData: the node list built from the rows whose parents are `parents`
ProcessedNodes(parents) ==
    [i \in Index |->
        [id |-> IdTable[i], name |-> NameTable[i], parent_id |-> parents[i],
         has_children |-> HasChildrenFlag(parents, IdTable[i])]]

RecordSets == {ProcessedNodes(parents) : parents \in [Index -> ParentChoices]}

\* nodesById.has(id), nodesById.get(id)
HasNode(id) == \E i \in 1..Len(nodes) : nodes[i].id = id
NodeById(id) == nodes[CHOOSE i \in 1..Len(nodes) : nodes[i].id = id]

\* nodesByParent.get(p) || []
nodesByParent(p) == SelectSeq(nodes, LAMBDA n : n.parent_id = p)

\* nodesByParent.get(null) || []
rootNodes == nodesByParent(Null)

SeqToSet(s) == {s[i] : i \in 1..Len(s)}
IdsOf(s) == {s[i].id : i \in 1..Len(s)}

-----------------------------------------------------------------------------
(* Selection engine, copy 1 (HPOPlugin.tsx lines 263-326) *)

\* the state of the loop of getDescendants before its first iteration
getDescendantsStart(nodeId) ==
    [stack |-> <<nodeId>>, visited |-> {}, descendants |-> <<>>,
     expanded |-> <<>>]

\* getDescendantsIter without the visited guard: a popped id is expanded
\* whether or not it was expanded before
getDescendantsIterNoGuard(nodeId, s) ==
    LET currentId == s.stack[Len(s.stack)]
        popped == SubSeq(s.stack, 1, Len(s.stack) - 1)
        children == nodesByParent(currentId)
    IN  [stack |-> popped \o [i \in 1..Len(children) |-> children[i].id],
         visited |-> s.visited \cup {currentId},
         descendants |-> IF currentId # nodeId
                         THEN Append(s.descendants, currentId)
                         ELSE s.descendants,
         expanded |-> Append(s.expanded, currentId)]

\* one iteration of `while (stack.length > 0)`; `expanded` lists the ids
\* whose children the iteration enumerated
getDescendantsIter(nodeId, s) ==
    LET currentId == s.stack[Len(s.stack)]
        popped == SubSeq(s.stack, 1, Len(s.stack) - 1)
        visited1 == s.visited \cup {currentId}
        children == nodesByParent(currentId)
        unvisited == SelectSeq(children, LAMBDA c : c.id \notin visited1)
    IN  IF currentId \in s.visited
        THEN [s EXCEPT !.stack = popped]
        ELSE [stack |-> popped \o [i \in 1..Len(unvisited) |-> unvisited[i].id],
              visited |-> visited1,
              descendants |-> IF currentId # nodeId
                              THEN Append(s.descendants, currentId)
                              ELSE s.descendants,
              expanded |-> Append(s.expanded, currentId)]

RECURSIVE getDescendantsRun(_, _)
getDescendantsRun(nodeId, s) ==
    IF s.stack = <<>> THEN s
    ELSE getDescendantsRun(nodeId, getDescendantsIter(nodeId, s))

\* getDescendants that stops at the children of nodeId
getDescendantsChildrenOnly(nodeId) ==
    LET children == nodesByParent(nodeId)
    IN  SelectSeq([i \in 1..Len(children) |-> children[i].id],
                  LAMBDA id : id # nodeId)

\* getDescendants that keeps, while a search is active, only the
\* descendants whose name holds the debounced term
getDescendantsOfSearch(nodeId) ==
    SelectSeq(getDescendantsRun(nodeId, getDescendantsStart(nodeId)).descendants,
              LAMBDA d : \/ debouncedSearchTerm = <<>>
                         \/ includes(toLowerCase(NodeById(d).name),
                                     toLowerCase(debouncedSearchTerm)))

\* getDescendants(nodeId): string[]
getDescendants(nodeId) ==
    getDescendantsRun(nodeId, getDescendantsStart(nodeId)).descendants

\* handleNodeSelect without `newSelected.add(node.id)`
newSelectedNoSelf(nodeId, checked) ==
    LET descendants == SeqToSet(getDescendants(nodeId))
    IN  IF checked
        THEN selectedNodes \cup descendants
        ELSE (selectedNodes \ descendants) \ {nodeId}

\* handleNodeSelect with the parent of the node deselected with it
newSelectedAndParent(nodeId, checked) ==
    LET descendants == SeqToSet(getDescendants(nodeId))
    IN  IF checked
        THEN (selectedNodes \cup descendants) \cup {nodeId}
        ELSE ((selectedNodes \ descendants) \ {nodeId})
                 \ {NodeById(nodeId).parent_id}

\* handleNodeSelect: the set handed to setSelectedNodes
newSelected(nodeId, checked) ==
    LET descendants == SeqToSet(getDescendants(nodeId))
    IN  IF checked
        THEN (selectedNodes \cup descendants) \cup {nodeId}
        ELSE (selectedNodes \ descendants) \ {nodeId}

isNodeSelected(nodeId) == nodeId \in selectedNodes

isNodePartiallySelected(nodeId) ==
    LET descendants == getDescendants(nodeId)
        selectedDescendants ==
            SelectSeq(descendants, LAMBDA id : id \in selectedNodes)
    IN  /\ Len(selectedDescendants) > 0
        /\ Len(selectedDescendants) < Len(descendants)

-----------------------------------------------------------------------------
(* Selection engine, copy 2 (HPOPlugin.tsx lines 842-902) *)

\* one iteration of the loop of the second getDescendants: every popped
\* unvisited id is pushed onto descendants, nodeId included
getDescendantsIter2(nodeId, s) ==
    LET currentId == s.stack[Len(s.stack)]
        popped == SubSeq(s.stack, 1, Len(s.stack) - 1)
        visited1 == s.visited \cup {currentId}
        children == nodesByParent(currentId)
        unvisited == SelectSeq(children, LAMBDA c : c.id \notin visited1)
    IN  IF currentId \in s.visited
        THEN [s EXCEPT !.stack = popped]
        ELSE [stack |-> popped \o [i \in 1..Len(unvisited) |-> unvisited[i].id],
              visited |-> visited1,
              descendants |-> Append(s.descendants, currentId),
              expanded |-> Append(s.expanded, currentId)]

RECURSIVE getDescendantsRun2(_, _)
getDescendantsRun2(nodeId, s) ==
    IF s.stack = <<>> THEN s
    ELSE getDescendantsRun2(nodeId, getDescendantsIter2(nodeId, s))

getDescendants2(nodeId) ==
    getDescendantsRun2(nodeId, getDescendantsStart(nodeId)).descendants

\* handleNodeSelect of copy 2: node.id is not added apart from descendants
newSelected2(nodeId, checked) ==
    LET descendants == SeqToSet(getDescendants2(nodeId))
    IN  IF checked
        THEN selectedNodes \cup descendants
        ELSE selectedNodes \ descendants

isNodePartiallySelected2(nodeId) ==
    LET descendants == getDescendants2(nodeId)
        selectedDescendants ==
            SelectSeq(descendants, LAMBDA id : id \in selectedNodes)
    IN  /\ Len(selectedDescendants) > 0
        /\ Len(selectedDescendants) < Len(descendants)

\* isNodePartiallySelected of the copy that runs
PartiallySelected(nodeId) ==
    IF copy = 1 THEN isNodePartiallySelected(nodeId)
    ELSE isNodePartiallySelected2(nodeId)

-----------------------------------------------------------------------------
(* View projector (HPOPlugin.tsx lines 180-247, the same in both copies) *)

\* JavaScript truthiness of parent_id: null and '' are falsy
Truthy(p) == p # Null /\ p # <<>>

\* node.name.toLowerCase().includes(searchLower) ||
\* node.id.toLowerCase().includes(searchLower)
Matches(node, term) ==
    LET searchLower == toLowerCase(term)
    IN  \/ includes(toLowerCase(node.name), searchLower)
        \/ includes(toLowerCase(node.id), searchLower)

\* `let current = node` before `while (current.parent_id)`
ancestorWalkStart(node) == [current |-> node, acc |-> {}, done |-> FALSE]

\* one evaluation of the loop condition and, when it holds, of the body
ancestorWalkIter(s) ==
    IF ~Truthy(s.current.parent_id)
    THEN [s EXCEPT !.done = TRUE]
    ELSE LET acc1 == s.acc \cup {s.current.parent_id}
         IN  IF ~HasNode(s.current.parent_id)
             THEN [s EXCEPT !.acc = acc1, !.done = TRUE]
             ELSE [s EXCEPT !.acc = acc1,
                            !.current = NodeById(s.current.parent_id)]

\* A walk that ends passes through distinct nodes, so it ends within
\* Len(nodes) + 1 evaluations of the condition; one that has not ended by
\* then has come back to a node it left and never ends.
RECURSIVE ancestorWalkRun(_, _)
ancestorWalkRun(s, fuel) ==
    IF s.done \/ fuel = 0 THEN s
    ELSE ancestorWalkRun(ancestorWalkIter(s), fuel - 1)

ancestorWalk(node) == ancestorWalkRun(ancestorWalkStart(node), Len(nodes) + 1)

\* the walk from some node matching `term` never ends
WalkHangs(term) ==
    \E i \in 1..Len(nodes) :
        Matches(nodes[i], term) /\ ~ancestorWalk(nodes[i]).done

matchingNodes(term) ==
    {nodes[i].id : i \in {j \in 1..Len(nodes) : Matches(nodes[j], term)}}

ancestorNodes(term) ==
    UNION {ancestorWalk(nodes[i]).acc :
              i \in {j \in 1..Len(nodes) : Matches(nodes[j], term)}}

\* matchingNodes.has(id) || ancestorNodes.has(id)
Included(id, term) == id \in matchingNodes(term) \/ id \in ancestorNodes(term)

RECURSIVE addNodeAndChildren(_, _, _)
RECURSIVE addNodeAndChildrenEach(_, _, _, _)
\* addNodeAndChildren with `result.push(node)` ahead of the test that the
\* node is a match or an ancestor of one
addNodeAndChildrenPushFirst(node, term, st) ==
    IF node.id \in st.visited THEN st
    ELSE LET st1 == [result |-> Append(st.result, node),
                     visited |-> st.visited \cup {node.id}]
         IN  IF Included(node.id, term)
             THEN addNodeAndChildrenEach(
                      SelectSeq(nodesByParent(node.id),
                                LAMBDA c : Included(c.id, term)),
                      1, term, st1)
             ELSE st1

\* addNodeAndChildren of search mode; st is [result, visited]
addNodeAndChildren(node, term, st) ==
    IF node.id \in st.visited THEN st
    ELSE LET st1 == [st EXCEPT !.visited = st.visited \cup {node.id}]
         IN  IF Included(node.id, term)
             THEN addNodeAndChildrenEach(
                      SelectSeq(nodesByParent(node.id),
                                LAMBDA c : Included(c.id, term)),
                      1, term, [st1 EXCEPT !.result = Append(st.result, node)])
             ELSE st1

\* children.forEach / rootNodes.forEach over addNodeAndChildren
addNodeAndChildrenEach(list, i, term, st) ==
    IF i > Len(list) THEN st
    ELSE addNodeAndChildrenEach(list, i + 1, term,
                                addNodeAndChildren(list[i], term, st))

searchVisibleNodes(term) ==
    addNodeAndChildrenEach(rootNodes, 1, term,
                           [result |-> <<>>, visited |-> {}]).result

RECURSIVE addNode(_, _)
RECURSIVE addNodeEach(_, _, _)
\* addNode of plain mode; st is [result, visited]
addNode(node, st) ==
    IF node.id \in st.visited THEN st
    ELSE LET st1 == [result |-> Append(st.result, node),
                     visited |-> st.visited \cup {node.id}]
         IN  IF node.id \in expandedNodes
             THEN addNodeEach(nodesByParent(node.id), 1, st1)
             ELSE st1

\* children.forEach / rootNodes.forEach over addNode
addNodeEach(list, i, st) ==
    IF i > Len(list) THEN st
    ELSE addNodeEach(list, i + 1, addNode(list[i], st))

plainVisibleNodes ==
    addNodeEach(rootNodes, 1, [result |-> <<>>, visited |-> {}]).result

\* visibleNodes with the mode and the matches taken from the raw term
visibleNodesOfRawTerm ==
    IF searchTerm # <<>>
    THEN searchVisibleNodes(searchTerm)
    ELSE plainVisibleNodes

\* visibleNodes (useMemo): `if (debouncedSearchTerm)` picks the mode
visibleNodes ==
    IF debouncedSearchTerm # <<>>
    THEN searchVisibleNodes(debouncedSearchTerm)
    ELSE plainVisibleNodes

\* auto-expand effect: the set handed to setExpandedNodes
autoExpandSet(term) ==
    IF term # <<>>
    THEN ancestorNodes(term) \cup matchingNodes(term)
    ELSE {}

-----------------------------------------------------------------------------
(* Output: the value handleNodeSelect writes to the host variable           *)
(* (HPOPlugin.tsx lines 288-311, the same in copy 2 at lines 868-887)       *)

RECURSIVE addEach(_, _, _)
\* ids.forEach(id => newSelected.add(id)) from ids[i] on; `order` lists the
\* Set in insertion order, which is the order Array.from gives
addEach(order, ids, i) ==
    IF i > Len(ids) THEN order
    ELSE addEach(IF ids[i] \in SeqToSet(order) THEN order
                 ELSE Append(order, ids[i]),
                 ids, i + 1)

\* ids.forEach(id => newSelected.delete(id))
deleteEach(order, ids) ==
    SelectSeq(order, LAMBDA id : id \notin SeqToSet(ids))

\* Array.from(newSelected) of copy 1: the descendants, then node.id
newSelectedArray(nodeId, checked) ==
    LET ids == Append(getDescendants(nodeId), nodeId)
    IN  IF checked THEN addEach(selectedOrder, ids, 1)
        ELSE deleteEach(selectedOrder, ids)

\* Array.from(newSelected) of copy 2
newSelectedArray2(nodeId, checked) ==
    LET ids == getDescendants2(nodeId)
    IN  IF checked THEN addEach(selectedOrder, ids, 1)
        ELSE deleteEach(selectedOrder, ids)

\* `${node.id} - ${node.name}`
termOf(node) == node.id \o <<" ", "-", " ">> \o node.name

\* .map(id => nodes.find(...) ? `${node.id} - ${node.name}` : null)
\* .filter(term => term !== null)
selectedTerms(ids) ==
    LET found == SelectSeq(ids, LAMBDA id : HasNode(id))
    IN  [i \in 1..Len(found) |-> termOf(NodeById(found[i]))]

RECURSIVE join(_, _)
\* Array.prototype.join(sep)
join(terms, sep) ==
    IF terms = <<>> THEN <<>>
    ELSE IF Len(terms) = 1 THEN terms[1]
    ELSE terms[1] \o sep \o join(Tail(terms), sep)

\* valueToSet with the terms joined by a comma and a space
valueToSetCommaSpace(ids) ==
    LET terms == selectedTerms(ids)
    IN  IF Len(terms) > 0 THEN join(terms, <<",", " ">>) ELSE <<>>

\* valueToSet: selectedTerms.length > 0 ? selectedTerms.join(',') : ''
valueToSet(ids) ==
    LET terms == selectedTerms(ids)
    IN  IF Len(terms) > 0 THEN join(terms, <<",">>) ELSE <<>>

\* the render without its loading branch
ShownNoLoading ==
    IF error # Null THEN "error"
    ELSE "tree"

\* what the render shows: the loading message first, then the error
\* message, else the search input and the tree; nothing once a render threw
Shown ==
    IF renderThrew THEN "blank"
    ELSE IF loading THEN "loading"
    ELSE IF error # Null THEN "error"
    ELSE "tree"

-----------------------------------------------------------------------------
(* Handlers *)

NoOp == [kind |-> "none", id |-> Null, term |-> <<>>]
\* no step of the view was taken yet
NoView == [kind |-> "none", debounced |-> <<>>, expanded |-> {}]
\* no traversal runs; `tick` counts iterations modulo 2, so that an
\* iteration is a step even when it leaves the loop's variables as they were
Idle == [kind |-> "idle", arg |-> Null, s |-> [expanded |-> <<>>],
         done |-> FALSE, tick |-> 0]

\* toggleExpansion(node.id), from the expand button or the label of a row
\* of the tree; both are inert when the node has no children
ToggleExpansion(id) ==
    /\ ~hung
    /\ Shown = "tree"
    /\ id \in IdsOf(visibleNodes)
    /\ NodeById(id).has_children
    /\ expandedNodes' = IF id \in expandedNodes
                        THEN expandedNodes \ {id}
                        ELSE expandedNodes \cup {id}
    /\ lastView' = [kind |-> "toggle", debounced |-> debouncedSearchTerm,
                    expanded |-> expandedNodes]
    /\ UNCHANGED <<copy, nodes, selectedNodes, searchTerm,
                   debouncedSearchTerm, timerPending, hung, lastOp, trav>>
    /\ UNCHANGED <<hostVars, loadVars, timeouts, auxVars>>

\* handleNodeSelect(node, e.target.checked), from the checkbox of a row:
\* setSelectedNodes(newSelected) and, `if (iframeLoaded)`,
\* setVariables({'hpo-phenotype-filter': valueToSet})
HandleNodeSelect(id, checked) ==
    /\ ~hung
    /\ Shown = "tree"
    /\ id \in IdsOf(visibleNodes)
    /\ selectedNodes' = IF copy = 1 THEN newSelected(id, checked)
                        ELSE newSelected2(id, checked)
    /\ selectedOrder' = IF copy = 1 THEN newSelectedArray(id, checked)
                        ELSE newSelectedArray2(id, checked)
    /\ hostValue' = IF iframeLoaded THEN valueToSet(selectedOrder')
                    ELSE hostValue
    /\ lastOp' = [kind |-> IF checked THEN "select" ELSE "deselect", id |-> id,
                  term |-> debouncedSearchTerm]
    /\ UNCHANGED <<copy, nodes, expandedNodes, searchTerm,
                   debouncedSearchTerm, timerPending, hung, trav>>
    /\ UNCHANGED <<iframeLoaded, isLocalDev, loadVars, viewHist, auxVars>>

\* no load runs; `failed` says that a file of the last load was not retrieved
NoLoad == [pc |-> "idle", i |-> 1, chunks |-> <<>>, failed |-> FALSE,
           threw |-> FALSE, attempt |-> 1, ok |-> FALSE,
           source |-> [i \in Index |-> Null]]

\* the component after mount and a load that set `nodes`: nothing expanded
\* or selected, both terms empty, the timeout that the debounce effect set
\* on mount still pending, and nothing written to the host variable yet
Init ==
    /\ copy \in {1, 2}
    /\ nodes \in RecordSets
    /\ expandedNodes = {}
    /\ selectedNodes = {}
    /\ searchTerm = <<>>
    /\ debouncedSearchTerm = <<>>
    /\ timerPending = TRUE
    /\ hung = FALSE
    /\ lastOp = NoOp
    /\ trav = Idle
    /\ selectedOrder = <<>>
    /\ hostValue = Null
    /\ iframeLoaded = TRUE
    /\ isLocalDev = FALSE
    /\ loading = FALSE
    /\ error = Null
    /\ load = [NoLoad EXCEPT !.pc = "done", !.ok = TRUE]
    /\ timeouts = IF copy = 3 THEN <<>> ELSE << <<>> >>
    /\ lastView = NoView
    /\ rawRows = <<>>
    /\ strictLoad = NoLoad
    /\ renderThrew = FALSE

-----------------------------------------------------------------------------
(* The selection engine under expand/collapse in plain mode.  A row that    *)
(* search mode shows is reached from a root through child links, so plain   *)
(* mode can show it too: every selection set that can arise arises here.    *)

NextSel ==
    \/ \E id \in NodeIds : ToggleExpansion(id)
    \/ \E id \in NodeIds, checked \in BOOLEAN : HandleNodeSelect(id, checked)

SpecSel == Init /\ [][NextSel]_vars

-----------------------------------------------------------------------------
(* The tree variant (src/unnamed/part_003) *)

\* loadChunkedData: parent.children, for the node with id `id`
children3(id) ==
    SelectSeq(nodes, LAMBDA n : /\ Truthy(n.parent_id)
                                /\ HasNode(n.parent_id)
                                /\ n.parent_id = id)

\* loadChunkedData: the root nodes handed to setNodes
rootNodes3 ==
    SelectSeq(nodes, LAMBDA n : ~Truthy(n.parent_id) \/ ~HasNode(n.parent_id))

RECURSIVE findNodeByIdFrom(_, _, _)
\* the loop of findNodeById over list[i..]; Null stands for `null`
findNodeByIdFrom(list, i, nodeId) ==
    IF i > Len(list) THEN Null
    ELSE IF list[i].id = nodeId THEN nodeId
    ELSE LET found == findNodeByIdFrom(children3(list[i].id), 1, nodeId)
         IN  IF found # Null THEN found
             ELSE findNodeByIdFrom(list, i + 1, nodeId)

findNodeById(list, nodeId) == findNodeByIdFrom(list, 1, nodeId)

\* `const queue = [...node.children]` of getDescendantIds
getDescendantIdsStart(id) ==
    LET c == children3(id)
    IN  [queue |-> [i \in 1..Len(c) |-> c[i].id], descendantIds |-> <<>>,
         expanded |-> <<>>]

\* one iteration of `while (queue.length > 0)` of getDescendantIds
getDescendantIdsIter(s) ==
    LET currentNode == Head(s.queue)
        c == children3(currentNode)
    IN  [queue |-> Tail(s.queue) \o [i \in 1..Len(c) |-> c[i].id],
         descendantIds |-> Append(s.descendantIds, currentNode),
         expanded |-> Append(s.expanded, currentNode)]

RECURSIVE getDescendantIdsRun(_)
getDescendantIdsRun(s) ==
    IF s.queue = <<>> THEN s
    ELSE getDescendantIdsRun(getDescendantIdsIter(s))

\* getDescendantIds(node): string[]
getDescendantIds(id) == getDescendantIdsRun(getDescendantIdsStart(id)).descendantIds

RECURSIVE renderNode(_, _)
\* list.map(node => renderNode(node)) from list[i] on: the ids of the rows
\* rendered; the children of a row are rendered when the row is expanded
renderNode(list, i) ==
    IF i > Len(list) THEN {}
    ELSE {list[i].id}
           \cup (IF list[i].id \in expandedNodes
                 THEN renderNode(children3(list[i].id), 1)
                 ELSE {})
           \cup renderNode(list, i + 1)

\* the expand button of a row, rendered when node.children.length > 0
ToggleExpansion3(id) ==
    /\ Shown = "tree"
    /\ id \in renderNode(rootNodes3, 1)
    /\ children3(id) # <<>>
    /\ expandedNodes' = IF id \in expandedNodes
                        THEN expandedNodes \ {id}
                        ELSE expandedNodes \cup {id}
    /\ UNCHANGED <<copy, nodes, selectedNodes, searchTerm,
                   debouncedSearchTerm, timerPending, hung, lastOp, trav>>
    /\ UNCHANGED <<hostVars, loadVars, viewHist, auxVars>>

\* handleNodeSelect(node.id, e.target.checked) of the tree variant.  In
\* local development the new selection goes to localSelectedNodes and the
\* handler returns; otherwise it goes to setFilterValue, and selectedNodes
\* follows when the host hands the value back (HostEcho).
HandleNodeSelect3(id, selected) ==
    /\ Shown = "tree"
    /\ id \in renderNode(rootNodes3, 1)
    /\ findNodeById(rootNodes3, id) # Null
    /\ LET allIds == <<id>> \o getDescendantIds(id)
           newSelection == IF selected THEN addEach(selectedOrder, allIds, 1)
                           ELSE deleteEach(selectedOrder, allIds)
       IN  IF isLocalDev
           THEN /\ selectedOrder' = newSelection
                /\ selectedNodes' = SeqToSet(newSelection)
                /\ UNCHANGED hostValue
           ELSE /\ hostValue' = newSelection
                /\ UNCHANGED <<selectedNodes, selectedOrder>>
    /\ lastOp' = [kind |-> IF selected THEN "select" ELSE "deselect", id |-> id,
                  term |-> debouncedSearchTerm]
    /\ UNCHANGED <<copy, nodes, expandedNodes, searchTerm,
                   debouncedSearchTerm, timerPending, hung, trav>>
    /\ UNCHANGED <<iframeLoaded, isLocalDev, loadVars, viewHist, auxVars>>

\* a value that JSON.parse could not read: it throws a SyntaxError
JsonThrow == [ok |-> FALSE, val |-> <<>>, rest |-> <<>>]

\* a string literal at the head of text: the characters up to the next quote
parseJsonString(text) ==
    LET closing == {k \in 2..Len(text) : text[k] = Quote}
    IN  IF closing = {} THEN JsonThrow
        ELSE LET k == CHOOSE k \in closing : \A l \in closing : k <= l
             IN  [ok |-> TRUE, val |-> SubSeq(text, 2, k - 1),
                  rest |-> SubSeq(text, k + 1, Len(text))]

\* a number at the head of text: its digits
parseJsonNumber(text) ==
    LET n == CHOOSE n \in 1..Len(text) :
                 /\ \A k \in 1..n : IsDigit(text[k])
                 /\ n = Len(text) \/ ~IsDigit(text[n + 1])
    IN  [ok |-> TRUE, val |-> SubSeq(text, 1, n),
         rest |-> SubSeq(text, n + 1, Len(text))]

\* a string or a number at the head of text; any other character throws
parseJsonScalar(text) ==
    IF text = <<>> THEN JsonThrow
    ELSE IF Head(text) = Quote THEN parseJsonString(text)
    ELSE IF IsDigit(Head(text)) THEN parseJsonNumber(text)
    ELSE JsonThrow

\* the elements of an array after '[' or ',', up to the closing ']'
RECURSIVE parseJsonElements(_, _)
parseJsonElements(text, acc) ==
    LET element == parseJsonScalar(trimStart(text))
        after == trimStart(element.rest)
    IN  IF ~element.ok \/ after = <<>> THEN JsonThrow
        ELSE IF Head(after) = ","
             THEN parseJsonElements(Tail(after), Append(acc, element.val))
        ELSE IF Head(after) = "]"
             THEN [ok |-> TRUE, val |-> Append(acc, element.val),
                   rest |-> Tail(after)]
        ELSE JsonThrow

\* an array of strings and numbers at the head of text
parseJsonArray(text) ==
    LET inner == trimStart(Tail(text))
    IN  IF inner # <<>> /\ Head(inner) = "]"
        THEN [ok |-> TRUE, val |-> <<>>, rest |-> Tail(inner)]
        ELSE parseJsonElements(inner, <<>>)

\* JSON.parse(text) of a text of strings, numbers and arrays of them: the
\* array read, or the one value read, or a throw
JsonParse(text) ==
    LET t == trimStart(text)
        isArray == t # <<>> /\ Head(t) = "["
        parsed == IF isArray THEN parseJsonArray(t) ELSE parseJsonScalar(t)
    IN  IF ~parsed.ok \/ trimStart(parsed.rest) # <<>>
        THEN [threw |-> TRUE, items |-> <<>>]
        ELSE [threw |-> FALSE,
              items |-> IF isArray THEN parsed.val ELSE <<parsed.val>>]

\* selectedNodes = useMemo(...) outside local development: the empty set for
\* a falsy value, new Set(filterValue) for an array, for a string the set of
\* JSON.parse(filterValue), and the empty set when that throws
selectedNodesMemo(kind, filterValue) ==
    IF filterValue = Null \/ (kind = "string" /\ filterValue = <<>>) THEN {}
    ELSE IF kind = "array" THEN SeqToSet(filterValue)
    ELSE LET parsed == JsonParse(filterValue)
         IN  IF parsed.threw THEN {} ELSE SeqToSet(parsed.items)

\* useVariable hands the component the value the host now holds, and the
\* useMemo over filterValue makes it the selection
HostEcho ==
    /\ ~isLocalDev
    /\ selectedOrder # hostValue
    /\ selectedOrder' = hostValue
    /\ selectedNodes' = selectedNodesMemo("array", hostValue)
    /\ UNCHANGED <<copy, nodes, expandedNodes, searchTerm,
                   debouncedSearchTerm, timerPending, hung, lastOp, trav>>
    /\ UNCHANGED <<hostValue, iframeLoaded, isLocalDev, loadVars, viewHist, auxVars>>

\* the tree variant after mount and a load that set `nodes`; filterValue is
\* still empty
InitTree ==
    /\ copy = 3
    /\ nodes \in RecordSets
    /\ expandedNodes = {}
    /\ selectedNodes = {}
    /\ searchTerm = <<>>
    /\ debouncedSearchTerm = <<>>
    /\ timerPending = FALSE
    /\ hung = FALSE
    /\ lastOp = NoOp
    /\ trav = Idle
    /\ selectedOrder = <<>>
    /\ hostValue = <<>>
    /\ iframeLoaded = FALSE
    /\ isLocalDev \in BOOLEAN
    /\ loading = FALSE
    /\ error = Null
    /\ load = [NoLoad EXCEPT !.pc = "done", !.ok = TRUE]
    /\ timeouts = IF copy = 3 THEN <<>> ELSE << <<>> >>
    /\ lastView = NoView
    /\ rawRows = <<>>
    /\ strictLoad = NoLoad
    /\ renderThrew = FALSE

NextTree ==
    \/ \E id \in NodeIds : ToggleExpansion3(id)
    \/ \E id \in NodeIds, selected \in BOOLEAN : HandleNodeSelect3(id, selected)
    \/ HostEcho

SpecTree == InitTree /\ [][NextTree]_vars

-----------------------------------------------------------------------------
(* The traversal loops, one iteration per step *)

\* a call getDescendants(id) starts
StartGetDescendants(id) ==
    /\ trav = Idle
    /\ HasNode(id)
    /\ trav' = [kind |-> "getDescendants", arg |-> id,
                s |-> getDescendantsStart(id), done |-> FALSE,
                tick |-> 0]
    /\ UNCHANGED <<copy, nodes, expandedNodes, selectedNodes, searchTerm,
                   debouncedSearchTerm, timerPending, hung, lastOp>>
    /\ UNCHANGED <<hostVars, loadVars, viewHist, auxVars>>

\* the loop test of getDescendants and, when it holds, one iteration
StepGetDescendants ==
    /\ trav.kind = "getDescendants"
    /\ ~trav.done
    /\ trav' = IF trav.s.stack = <<>>
               THEN [trav EXCEPT !.done = TRUE]
               ELSE [trav EXCEPT !.tick = 1 - trav.tick,
                                 !.s = IF copy = 1
                                       THEN getDescendantsIter(trav.arg, trav.s)
                                       ELSE getDescendantsIter2(trav.arg, trav.s)]
    /\ UNCHANGED <<copy, nodes, expandedNodes, selectedNodes, searchTerm,
                   debouncedSearchTerm, timerPending, hung, lastOp>>
    /\ UNCHANGED <<hostVars, loadVars, viewHist, auxVars>>

\* handleNodeSelect of the tree variant: findNodeById finds the target and
\* getDescendantIds(targetNode) starts
StartGetDescendantIds(id) ==
    /\ trav = Idle
    /\ findNodeById(rootNodes3, id) # Null
    /\ trav' = [kind |-> "getDescendantIds", arg |-> id,
                s |-> getDescendantIdsStart(id), done |-> FALSE,
                tick |-> 0]
    /\ UNCHANGED <<copy, nodes, expandedNodes, selectedNodes, searchTerm,
                   debouncedSearchTerm, timerPending, hung, lastOp>>
    /\ UNCHANGED <<hostVars, loadVars, viewHist, auxVars>>

\* the loop test of getDescendantIds and, when it holds, one iteration
StepGetDescendantIds ==
    /\ trav.kind = "getDescendantIds"
    /\ ~trav.done
    /\ trav' = IF trav.s.queue = <<>>
               THEN [trav EXCEPT !.done = TRUE]
               ELSE [trav EXCEPT !.tick = 1 - trav.tick,
                                 !.s = getDescendantIdsIter(trav.s)]
    /\ UNCHANGED <<copy, nodes, expandedNodes, selectedNodes, searchTerm,
                   debouncedSearchTerm, timerPending, hung, lastOp>>
    /\ UNCHANGED <<hostVars, loadVars, viewHist, auxVars>>

\* the ancestor walk from the matching node nodes[i] starts
StartAncestorWalk(i) ==
    /\ trav = Idle
    /\ \E term \in Terms \ {<<>>} : Matches(nodes[i], term)
    /\ trav' = [kind |-> "ancestorWalk", arg |-> nodes[i].id,
                s |-> ancestorWalkStart(nodes[i]), done |-> FALSE,
                tick |-> 0]
    /\ UNCHANGED <<copy, nodes, expandedNodes, selectedNodes, searchTerm,
                   debouncedSearchTerm, timerPending, hung, lastOp>>
    /\ UNCHANGED <<hostVars, loadVars, viewHist, auxVars>>

\* the loop test of the ancestor walk and, when it holds, one iteration
StepAncestorWalk ==
    /\ trav.kind = "ancestorWalk"
    /\ ~trav.done
    /\ trav' = LET s1 == ancestorWalkIter(trav.s)
               IN  [trav EXCEPT !.tick = 1 - trav.tick, !.s = s1,
                                !.done = s1.done]
    /\ UNCHANGED <<copy, nodes, expandedNodes, selectedNodes, searchTerm,
                   debouncedSearchTerm, timerPending, hung, lastOp>>
    /\ UNCHANGED <<hostVars, loadVars, viewHist, auxVars>>

NextTrav ==
    \/ \E id \in NodeIds : StartGetDescendants(id)
    \/ StepGetDescendants
    \/ \E id \in NodeIds : StartGetDescendantIds(id)
    \/ StepGetDescendantIds
    \/ \E i \in Index : StartAncestorWalk(i)
    \/ StepAncestorWalk

\* a loop that can take an iteration takes it: the JavaScript engine keeps
\* running the synchronous call it is in
SpecTrav == Init /\ [][NextTrav]_vars /\ WF_vars(NextTrav)

-----------------------------------------------------------------------------
(* Search: the input, the debounce effect and the auto-expand effect *)

\* the debounce effect with no clearTimeout of the timeout set before
scheduleDebounceNoClear(live, term) == Append(live, term)

\* the debounce effect with no setTimeout
scheduleDebounceNone(live, term) == <<>>

\* the debounce effect, run for a new searchTerm: clearTimeout of the timeout
\* searchTimeoutRef holds, then setTimeout of a callback that closes over
\* the term; `live` lists the live timeouts by the term they captured
scheduleDebounce(live, term) == <<term>>

\* onChange of the search input: setSearchTerm(e.target.value); the render
\* that follows runs the debounce effect
SetSearchTerm(t) ==
    /\ ~hung
    /\ Shown = "tree"
    /\ t # searchTerm
    /\ searchTerm' = t
    /\ timeouts' = scheduleDebounce(timeouts, t)
    /\ timerPending' = (timeouts' # <<>>)
    /\ lastView' = [kind |-> "type", debounced |-> debouncedSearchTerm,
                    expanded |-> expandedNodes]
    /\ UNCHANGED <<copy, nodes, expandedNodes, selectedNodes,
                   debouncedSearchTerm, hung, lastOp, trav>>
    /\ UNCHANGED <<hostVars, loadVars, auxVars>>

\* new RegExp(pattern) throws a SyntaxError.  The scan of pattern[i..] knows
\* the depth of open groups and what stands before i: nothing to repeat
\* ("none"), an atom ("atom"), or a quantifier ("quant").  A ')' with no
\* open group, a group or a character class left open, and a quantifier
\* with nothing to repeat are the errors of patterns made of letters,
\* parentheses, brackets and the quantifiers * + ?.
RECURSIVE regExpScanThrows(_, _, _, _)
regExpScanThrows(pattern, i, depth, before) ==
    IF i > Len(pattern) THEN depth > 0
    ELSE LET c == pattern[i]
         IN  CASE c = "(" -> regExpScanThrows(pattern, i + 1, depth + 1, "none")
               [] c = ")" -> \/ depth = 0
                             \/ regExpScanThrows(pattern, i + 1, depth - 1, "atom")
               [] c = "[" ->
                     LET closing == {k \in (i + 1)..Len(pattern) : pattern[k] = "]"}
                     IN  \/ closing = {}
                         \/ regExpScanThrows(
                                pattern,
                                (CHOOSE k \in closing : \A l \in closing : k <= l) + 1,
                                depth, "atom")
               [] c \in {"*", "+"} ->
                     \/ before # "atom"
                     \/ regExpScanThrows(pattern, i + 1, depth, "quant")
               [] c = "?" ->
                     \/ before = "none"
                     \/ regExpScanThrows(pattern, i + 1, depth,
                                         IF before = "atom" THEN "quant" ELSE "none")
               [] OTHER -> regExpScanThrows(pattern, i + 1, depth, "atom")

regExpThrows(pattern) == regExpScanThrows(pattern, 1, 0, "none")

\* highlightText(text, highlight) throws: `if (!highlight) return text`, then
\* new RegExp(`(${highlight})`, 'gi') of the unescaped term
highlightTextThrows(highlight) ==
    highlight # <<>> /\ regExpThrows(<<"(">> \o highlight \o <<")">>)

\* the render of the tree with the debounced term `term` throws: a row is
\* rendered, and highlightText(node.name, debouncedSearchTerm) throws
RenderThrows(term) ==
    searchVisibleNodes(term) # <<>> /\ highlightTextThrows(term)

\* a live timeout fires: setDebouncedSearchTerm(term), term being the
\* searchTerm its callback closed over.  When the value changes the
\* component renders: visibleNodes runs the ancestor walks (and never
\* returns when one of them never ends), then the auto-expand effect runs
\* setExpandedNodes.  When the render throws, React unmounts the component
\* (there is no error boundary): no effect runs, the timeouts are cleared.
DebounceFire ==
    /\ ~hung
    /\ ~renderThrew
    /\ timerPending
    /\ \E k \in 1..Len(timeouts) :
           LET term == timeouts[k]
           IN  /\ timeouts' = SubSeq(timeouts, 1, k - 1)
                                \o SubSeq(timeouts, k + 1, Len(timeouts))
               /\ timerPending' = (timeouts' # <<>>)
               /\ debouncedSearchTerm' = term
               /\ IF term = debouncedSearchTerm
                  THEN UNCHANGED <<expandedNodes, hung, renderThrew>>
                  ELSE IF term # <<>> /\ WalkHangs(term)
                  THEN hung' = TRUE /\ UNCHANGED <<expandedNodes, renderThrew>>
                  ELSE IF term # <<>> /\ RenderThrows(term)
                  THEN renderThrew' = TRUE /\ UNCHANGED <<expandedNodes, hung>>
                  ELSE /\ hung' = FALSE
                       /\ expandedNodes' = autoExpandSet(term)
                       /\ UNCHANGED renderThrew
    /\ lastView' = [kind |-> "fire", debounced |-> debouncedSearchTerm,
                    expanded |-> expandedNodes]
    /\ UNCHANGED <<copy, nodes, selectedNodes, searchTerm, lastOp, trav>>
    /\ UNCHANGED <<hostVars, loadVars, rawRows, strictLoad>>

NextView ==
    \/ \E t \in Terms : SetSearchTerm(t)
    \/ DebounceFire
    \/ \E id \in NodeIds : ToggleExpansion(id)

SpecView == Init /\ [][NextView]_vars

\* The debounce alone, on four shapes of record set: all roots, a chain, a
\* node that is its own parent, and a node with a dangling parent id.
DebounceParents ==
    {[i \in Index |-> Null],
     [i \in Index |-> IF i = 1 THEN Null ELSE IdTable[i - 1]],
     [i \in Index |-> IF i = 3 THEN IdTable[i] ELSE Null],
     [i \in Index |-> IF i = 3 THEN DanglingId ELSE Null]}

InitDebounce ==
    /\ Init
    /\ nodes \in {ProcessedNodes(parents) : parents \in DebounceParents}

NextDebounce ==
    \/ \E t \in Terms : SetSearchTerm(t)
    \/ DebounceFire

\* a live timeout fires in the end: the browser runs the callback of a
\* timeout that is not cleared
SpecDebounce ==
    InitDebounce /\ [][NextDebounce]_vars /\ WF_vars(DebounceFire)

\* The render of the rows, on record sets whose first label holds the
\* characters of a RegExp group, and the search strings "", "(", "(b)", "a".
RenderName == <<"A", "(", "b", ")">>

RenderTerms == {<<>>, <<"(">>, <<"(", "b", ")">>, <<"a">>}

\* the record sets rendered: all roots, or a chain
RenderParents ==
    {[i \in Index |-> Null],
     [i \in Index |-> IF i = 1 THEN Null ELSE IdTable[i - 1]]}

\* the rows whose checkbox is clicked: those of the first two records
RenderIds == {IdTable[1], IdTable[2]}

\* the component after mount and a load that set `nodes`
InitRender ==
    /\ copy \in {1, 2}
    /\ \E parents \in RenderParents :
           nodes = [i \in Index |->
                       IF i = 1
                       THEN [ProcessedNodes(parents)[i] EXCEPT !.name = RenderName]
                       ELSE ProcessedNodes(parents)[i]]
    /\ expandedNodes = {}
    /\ selectedNodes = {}
    /\ searchTerm = <<>>
    /\ debouncedSearchTerm = <<>>
    /\ timeouts = << <<>> >>
    /\ timerPending = TRUE
    /\ hung = FALSE
    /\ lastOp = NoOp
    /\ trav = Idle
    /\ selectedOrder = <<>>
    /\ hostValue = Null
    /\ iframeLoaded = TRUE
    /\ isLocalDev = FALSE
    /\ loading = FALSE
    /\ error = Null
    /\ load = [NoLoad EXCEPT !.pc = "done", !.ok = TRUE]
    /\ lastView = NoView
    /\ rawRows = <<>>
    /\ strictLoad = NoLoad
    /\ renderThrew = FALSE

\* the actions of the user on the tree, and the timeouts
NextRender ==
    \/ \E t \in RenderTerms : SetSearchTerm(t)
    \/ DebounceFire
    \/ \E id \in NodeIds : ToggleExpansion(id)
    \/ \E id \in RenderIds, checked \in BOOLEAN : HandleNodeSelect(id, checked)

SpecRender == InitRender /\ [][NextRender]_vars

\* The selection engine on six shapes of record set: all roots, a chain, a
\* node that is its own parent, a node with a dangling parent id, two nodes
\* that are each other's parent, and a root with all other nodes under it.
FrameParents ==
    DebounceParents
    \cup {[i \in Index |-> IF i = 1 THEN IdTable[2]
                           ELSE IF i = 2 THEN IdTable[1] ELSE IdTable[2]],
          [i \in Index |-> IF i = 1 THEN Null ELSE IdTable[1]]}

InitFrame ==
    /\ Init
    /\ nodes \in {ProcessedNodes(parents) : parents \in FrameParents}

SpecFrame == InitFrame /\ [][NextSel]_vars

-----------------------------------------------------------------------------
(* The load: fetchData / loadChunkedData and Try Again of copy 1,            *)
(* loadHPOData of copy 2, loadChunkedData of the tree variant                *)

\* chunkSuffixes = ['aa', 'ab', 'ac', 'ad', 'ae']
NumChunks == 5

\* loads a run of the component makes: the one on mount and the retries
MaxAttempts == 2

\* new Error('No data chunks found'), and the message of a rejected fetch
NoChunksFound == <<"No data chunks found">>
FetchFailed == <<"Failed to fetch">>

\* the files a load fetches: the five chunks, or the one file of copy 2
Fetches == IF copy = 2 THEN 1 ELSE NumChunks

\* the file that holds the i-th record of the tabular source
ChunkOf(i) == ((i - 1) % Fetches) + 1

\* the records of file c, in source order
RowsOfChunk(c) ==
    SelectSeq([i \in Index |-> i], LAMBDA i : ChunkOf(i) = c)

RECURSIVE RowsOf(_)
\* the rows of the combined data: the fetched files one after another
RowsOf(chunks) ==
    IF chunks = <<>> THEN <<>>
    ELSE RowsOfChunk(Head(chunks)) \o RowsOf(Tail(chunks))

\* processedNodes (hpoNodes in copy 2, parsedNodes in the tree variant)
\* built from the rows `rows` of the source whose parent ids are `parents`
processedNodes(parents, rows) ==
    [k \in 1..Len(rows) |->
        [id |-> IdTable[rows[k]], name |-> NameTable[rows[k]],
         parent_id |-> parents[rows[k]],
         has_children |-> \E j \in SeqToSet(rows) :
                              parents[j] # Null /\ parents[j] = IdTable[rows[k]]]]

\* a load starts: setLoading(true) and, but in copy 1, setError(null)
BeginLoad(attempt) ==
    /\ loading' = TRUE
    /\ error' = IF copy = 1 THEN error ELSE Null
    /\ load' = [load EXCEPT !.pc = "fetch", !.i = 1, !.chunks = <<>>,
                            !.failed = FALSE, !.threw = FALSE,
                            !.attempt = attempt, !.ok = FALSE]

\* the effects of the mount: fetchData() (loadHPOData(), loadChunkedData())
\* and setIframeLoaded(true)
MountLoad ==
    /\ load.pc = "idle"
    /\ BeginLoad(1)
    /\ iframeLoaded' = (copy # 3)
    /\ UNCHANGED <<copy, nodes, expandedNodes, selectedNodes, searchTerm,
                   debouncedSearchTerm, timerPending, hung, lastOp, trav>>
    /\ UNCHANGED <<selectedOrder, hostValue, isLocalDev, viewHist, auxVars>>

\* `await fetch(...)` of the next file settles.  outcome is "ok", "notok"
\* (a response with !response.ok) or "reject" (fetch throws).  The chunk
\* loops skip a file that is not ok (`continue`); copy 2 does not test
\* response.ok and reads the body, which holds no row, and a rejected fetch
\* throws to the catch of loadHPOData.
fetchSettled(l, outcome) ==
    [l EXCEPT !.i = l.i + 1,
              !.chunks = IF outcome = "ok" THEN Append(l.chunks, l.i)
                         ELSE l.chunks,
              !.failed = l.failed \/ outcome # "ok",
              !.threw = (copy = 2 /\ outcome = "reject")]

\* the call l of the load function waits for a fetch
Fetching(l) == l.pc = "fetch" /\ ~l.threw /\ l.i <= Fetches

FetchChunk(outcome) ==
    /\ Fetching(load)
    /\ load' = fetchSettled(load, outcome)
    /\ UNCHANGED <<copy, nodes, expandedNodes, selectedNodes, searchTerm,
                   debouncedSearchTerm, timerPending, hung, lastOp, trav>>
    /\ UNCHANGED <<hostVars, loading, error, viewHist, auxVars>>

\* the load comes to its end.  The chunk loops throw only when no chunk at
\* all was fetched; otherwise the node list built from the fetched files is
\* installed: setNodes(...), setLoading(false).  The catch runs
\* setError(message), setLoading(false).  No search term was ever typed
\* when a load ends, so the auto-expand effect that follows setNodes
\* leaves the expansion set empty.
Ending(l) == l.pc = "fetch" /\ (l.threw \/ l.i > Fetches)

\* the call l throws: no chunk fetched, or, in copy 2, the fetch rejected
Thrown(l) == IF copy = 2 THEN l.threw ELSE l.chunks = <<>>

\* what the end of the call l sets: error, nodes, loading
EndOfLoad(l) ==
    /\ error' = IF Thrown(l)
                THEN (IF copy = 2 THEN FetchFailed ELSE NoChunksFound)
                ELSE error
    /\ nodes' = IF Thrown(l) THEN nodes
                ELSE processedNodes(l.source, RowsOf(l.chunks))
    /\ loading' = FALSE

FinishLoad ==
    /\ Ending(load)
    /\ EndOfLoad(load)
    /\ load' = [load EXCEPT !.pc = "done", !.ok = ~Thrown(load),
                            !.i = 1, !.chunks = <<>>]
    /\ UNCHANGED <<copy, expandedNodes, selectedNodes, searchTerm,
                   debouncedSearchTerm, timerPending, hung, lastOp, trav>>
    /\ UNCHANGED <<hostVars, viewHist, auxVars>>

\* the error render holds the Try Again button; that of the tree variant
\* holds the message alone
RetryShown == Shown = "error" /\ copy \in {1, 2}

\* the ids of the tree rows rendered
rowsShown ==
    IF Shown # "tree" THEN {}
    ELSE IF copy = 3 THEN renderNode(rootNodes3, 1)
    ELSE IdsOf(visibleNodes)

\* the Try Again button: fetchData() in copy 1, loadHPOData() in copy 2
TryAgain ==
    /\ RetryShown
    /\ load.attempt < MaxAttempts
    /\ BeginLoad(load.attempt + 1)
    /\ UNCHANGED <<copy, nodes, expandedNodes, selectedNodes, searchTerm,
                   debouncedSearchTerm, timerPending, hung, lastOp, trav>>
    /\ UNCHANGED <<hostVars, viewHist, auxVars>>

\* onChange of the search input of the tree variant, which is rendered
\* whatever the state of the load: setSearchTerm(e.target.value); nothing
\* else reads searchTerm
SetSearchTerm3(t) ==
    /\ t # searchTerm
    /\ searchTerm' = t
    /\ UNCHANGED <<copy, nodes, expandedNodes, selectedNodes,
                   debouncedSearchTerm, timerPending, hung, lastOp, trav>>
    /\ UNCHANGED <<hostVars, loadVars, viewHist, auxVars>>

\* the tabular source of a load: all roots, or a chain
LoadParents ==
    {[i \in Index |-> Null],
     [i \in Index |-> IF i = 1 THEN Null ELSE IdTable[i - 1]]}

\* the component as constructed: loading, no nodes, no effect run yet
InitLoad ==
    /\ copy \in {1, 2, 3}
    /\ nodes = <<>>
    /\ expandedNodes = {}
    /\ selectedNodes = {}
    /\ searchTerm = <<>>
    /\ debouncedSearchTerm = <<>>
    /\ timeouts = IF copy = 3 THEN <<>> ELSE << <<>> >>
    /\ timerPending = (timeouts # <<>>)
    /\ hung = FALSE
    /\ lastOp = NoOp
    /\ trav = Idle
    /\ selectedOrder = <<>>
    /\ hostValue = IF copy = 3 THEN <<>> ELSE Null
    /\ iframeLoaded = FALSE
    /\ isLocalDev \in (IF copy = 3 THEN BOOLEAN ELSE {FALSE})
    /\ loading = TRUE
    /\ error = Null
    /\ \E parents \in LoadParents : load = [NoLoad EXCEPT !.source = parents]
    /\ lastView = NoView
    /\ rawRows = <<>>
    /\ strictLoad = NoLoad
    /\ renderThrew = FALSE

\* the search strings typed while and after a load: "", "aB"
LoadTerms == {<<>>, <<"a", "B">>}

\* the rows clicked after a load: those of the first two records
LoadIds == {IdTable[1], IdTable[2]}

NextLoad ==
    \/ MountLoad
    \/ \E outcome \in {"ok", "notok", "reject"} : FetchChunk(outcome)
    \/ FinishLoad
    \/ TryAgain
    \/ copy \in {1, 2} /\ \E id \in LoadIds : ToggleExpansion(id)
    \/ copy \in {1, 2} /\ \E id \in LoadIds, checked \in BOOLEAN :
                              HandleNodeSelect(id, checked)
    \/ copy \in {1, 2} /\ \E t \in LoadTerms : SetSearchTerm(t)
    \/ copy \in {1, 2} /\ DebounceFire
    \/ copy = 3 /\ \E id \in LoadIds : ToggleExpansion3(id)
    \/ copy = 3 /\ \E id \in LoadIds, selected \in BOOLEAN :
                       HandleNodeSelect3(id, selected)
    \/ copy = 3 /\ HostEcho
    \/ copy = 3 /\ \E t \in LoadTerms : SetSearchTerm3(t)

SpecLoad == InitLoad /\ [][NextLoad]_vars

-----------------------------------------------------------------------------
(* The load under React.StrictMode (main.tsx, part_001): in a development   *)
(* build the component is mounted, unmounted and mounted again, so the      *)
(* mount effect runs twice and calls the load function twice; neither call  *)
(* is cancelled.  `load` is the first call and every retry, `strictLoad`    *)
(* the second call of the mount.                                            *)

\* the mount effect runs twice: two calls of the load function
MountLoadStrict ==
    /\ load.pc = "idle"
    /\ strictLoad.pc = "idle"
    /\ BeginLoad(1)
    /\ strictLoad' = load'
    /\ iframeLoaded' = (copy # 3)
    /\ UNCHANGED <<copy, nodes, expandedNodes, selectedNodes, searchTerm,
                   debouncedSearchTerm, timerPending, hung, lastOp, trav>>
    /\ UNCHANGED <<selectedOrder, hostValue, isLocalDev, viewHist, rawRows, renderThrew>>

\* `await fetch(...)` of the second call settles
FetchChunkStrict(outcome) ==
    /\ Fetching(strictLoad)
    /\ strictLoad' = fetchSettled(strictLoad, outcome)
    /\ UNCHANGED <<copy, nodes, expandedNodes, selectedNodes, searchTerm,
                   debouncedSearchTerm, timerPending, hung, lastOp, trav>>
    /\ UNCHANGED <<hostVars, loadVars, viewHist, rawRows, renderThrew>>

\* the second call comes to its end
FinishLoadStrict ==
    /\ Ending(strictLoad)
    /\ EndOfLoad(strictLoad)
    /\ strictLoad' = [strictLoad EXCEPT !.pc = "done", !.ok = ~Thrown(strictLoad),
                                        !.i = 1, !.chunks = <<>>]
    /\ UNCHANGED <<copy, expandedNodes, selectedNodes, searchTerm,
                   debouncedSearchTerm, timerPending, hung, lastOp, trav>>
    /\ UNCHANGED <<hostVars, load, viewHist, rawRows, renderThrew>>

\* The mount effect runs once (a production build, or the main.tsx without
\* StrictMode) or twice.  A retry is taken here only when the first call
\* has ended.
NextStrict ==
    \/ MountLoad
    \/ MountLoadStrict
    \/ \E outcome \in {"ok", "notok", "reject"} : FetchChunk(outcome)
    \/ \E outcome \in {"ok", "notok", "reject"} : FetchChunkStrict(outcome)
    \/ FinishLoad
    \/ FinishLoadStrict
    \/ load.pc = "done" /\ TryAgain

SpecStrict == InitLoad /\ [][NextStrict]_vars

-----------------------------------------------------------------------------
(* The rows of the tabular source and the node records made from them       *)

\* the rows of a source: MaxRows rows
MaxRows == 1

\* the match of /^"+/ removed
RECURSIVE stripLeadingQuotes(_)
stripLeadingQuotes(str) ==
    IF str # <<>> /\ Head(str) = Quote THEN stripLeadingQuotes(Tail(str)) ELSE str

\* the match of /"+$/ removed
RECURSIVE stripTrailingQuotes(_)
stripTrailingQuotes(str) ==
    IF str # <<>> /\ str[Len(str)] = Quote
    THEN stripTrailingQuotes(SubSeq(str, 1, Len(str) - 1))
    ELSE str

\* if (!str) return ''; return str.replace(/^"+|"+$/g, '').trim();
stripQuotes(str) ==
    IF ~Truthy(str) THEN <<>>
    ELSE trim(stripTrailingQuotes(stripLeadingQuotes(str)))

\* a number: NaN, or the integer val
NaN == [nan |-> TRUE, val |-> 0]

Number(v) == [nan |-> FALSE, val |-> v]

\* the value of the longest prefix of decimal digits of str, from acc
RECURSIVE digitsValue(_, _)
digitsValue(str, acc) ==
    IF str # <<>> /\ IsDigit(Head(str))
    THEN digitsValue(Tail(str), 10 * acc + DigitVal(Head(str)))
    ELSE acc

\* parseInt(str, 10): white space skipped, an optional sign, then the longest
\* prefix of digits; NaN when there is no digit, as for undefined, which is
\* read as the text "undefined"
parseInt(str) ==
    IF str = Null THEN NaN
    ELSE LET t == trimStart(str)
             signed == t # <<>> /\ Head(t) \in {"-", "+"}
             u == IF signed THEN Tail(t) ELSE t
         IN  IF u = <<>> \/ ~IsDigit(Head(u)) THEN NaN
             ELSE IF signed /\ Head(t) = "-" THEN Number(0 - digitsValue(u, 0))
             ELSE Number(digitsValue(u, 0))

\* x || 0 of a number: NaN and 0 are falsy
orZero(x) == IF x.nan \/ x.val = 0 THEN Number(0) ELSE x

\* the text of a field as parseCSVLine returns it: every quote character
\* left out, then trim(); a column the line does not have reads ''
csvValue(text) ==
    IF text = Null THEN <<>>
    ELSE trim(SelectSeq(text, LAMBDA c : c # Quote))

\* the fields of the rows: a missing column, the empty text, quote characters
\* only, white space only, an id, a quoted id, a text that starts with ']'
TermIdTexts ==
    {Null, <<>>, <<Quote, Quote>>, <<" ">>, IdTable[1],
     <<Quote>> \o IdTable[1] \o <<Quote>>, <<"]", "h">>}

NameTexts == {Null, <<Quote>>, NameTable[1]}

ParentIdTexts == {Null, <<Quote, Quote>>, IdTable[1]}

LevelTexts == {Null, <<>>, <<"x">>, <<" ", "1", "2", "x">>}

RawRows ==
    [TERM_ID : TermIdTexts, TERM_FULL_NAME : NameTexts,
     PARENT_ID : ParentIdTexts, LEVEL : LevelTexts]

\* row.TERM_ID.startsWith(']')
startsWithBracket(str) == str # <<>> /\ Head(str) = "]"

\* the row filter of each variant: the Papa.parse variants test the fields as
\* parsed, the hand-written parser tests them trimmed
rowIsValid(c, row) ==
    CASE c = 1 -> /\ Truthy(row.TERM_ID)
                  /\ Truthy(row.TERM_FULL_NAME)
                  /\ ~startsWithBracket(row.TERM_ID)
      [] c = 2 -> /\ Truthy(trim(csvValue(row.TERM_ID)))
                  /\ Truthy(trim(csvValue(row.TERM_FULL_NAME)))
      [] c = 3 -> Truthy(row.TERM_ID) /\ Truthy(row.TERM_FULL_NAME)

\* the node record of a row that passed the filter, has_children not yet set
rowNode(c, row) ==
    IF c = 2
    THEN LET parentId == trim(csvValue(row.PARENT_ID))
         IN  [id |-> trim(csvValue(row.TERM_ID)),
              name |-> trim(csvValue(row.TERM_FULL_NAME)),
              parent_id |-> IF Truthy(parentId) THEN parentId ELSE Null,
              level |-> orZero(parseInt(csvValue(row.LEVEL))),
              has_children |-> FALSE]
    ELSE [id |-> stripQuotes(row.TERM_ID),
          name |-> stripQuotes(row.TERM_FULL_NAME),
          parent_id |-> IF Truthy(row.PARENT_ID)
                        THEN stripQuotes(row.PARENT_ID) ELSE Null,
          level |-> parseInt(row.LEVEL),
          has_children |-> FALSE]

RECURSIVE rowNodes(_, _)
rowNodes(c, rows) ==
    IF rows = <<>> THEN <<>>
    ELSE (IF rowIsValid(c, Head(rows)) THEN <<rowNode(c, Head(rows))>> ELSE <<>>)
         \o rowNodes(c, Tail(rows))

\* has_children set on nodesMap.get(parent_id), the last node of that id
withHasChildren(list) ==
    [i \in 1..Len(list) |->
        [list[i] EXCEPT !.has_children =
            /\ \A j \in (i + 1)..Len(list) : list[j].id # list[i].id
            /\ \E j \in 1..Len(list) :
                   Truthy(list[j].parent_id) /\ list[j].parent_id = list[i].id]]

\* the rows have been parsed; the node records are made and set
ProcessRows ==
    /\ load.pc = "idle"
    /\ nodes' = withHasChildren(rowNodes(copy, rawRows))
    /\ loading' = FALSE
    /\ load' = [load EXCEPT !.pc = "done", !.ok = TRUE]
    /\ UNCHANGED <<copy, expandedNodes, selectedNodes, searchTerm,
                   debouncedSearchTerm, timerPending, hung, lastOp, trav,
                   hostVars, error, viewHist, auxVars>>

\* the component as constructed, and the rows that the parser returns
InitRows ==
    /\ copy \in {1, 2, 3}
    /\ rawRows \in [1..MaxRows -> RawRows]
    /\ nodes = <<>>
    /\ expandedNodes = {}
    /\ selectedNodes = {}
    /\ searchTerm = <<>>
    /\ debouncedSearchTerm = <<>>
    /\ timeouts = IF copy = 3 THEN <<>> ELSE << <<>> >>
    /\ timerPending = (timeouts # <<>>)
    /\ hung = FALSE
    /\ lastOp = NoOp
    /\ trav = Idle
    /\ selectedOrder = <<>>
    /\ hostValue = IF copy = 3 THEN <<>> ELSE Null
    /\ iframeLoaded = FALSE
    /\ isLocalDev = FALSE
    /\ loading = TRUE
    /\ error = Null
    /\ load = NoLoad
    /\ lastView = NoView
    /\ strictLoad = NoLoad
    /\ renderThrew = FALSE

NextRows == ProcessRows

SpecRows == InitRows /\ [][NextRows]_vars

-----------------------------------------------------------------------------
(* The hierarchy as the claims speak of it, defined from the parent ids     *)
(* alone and not through the loops above                                    *)

\* the ids of the nodes whose parent is in S
ChildIdsOf(S) ==
    {nodes[i].id : i \in {j \in 1..Len(nodes) : nodes[j].parent_id \in S}}

RECURSIVE DownClosure(_)
DownClosure(S) ==
    LET S1 == S \cup ChildIdsOf(S)
    IN  IF S1 = S THEN S ELSE DownClosure(S1)

\* the ids reached from id by one or more parent-to-children links
ReachableFrom(id) == DownClosure(ChildIdsOf({id}))

NoDuplicates(seq) ==
    \A i, j \in 1..Len(seq) : seq[i] = seq[j] => i = j

-----------------------------------------------------------------------------
(* Claims on the selection engine (SpecSel) *)

\* C1: immediately after select(N) (handleNodeSelect with checked = true),
\* N and every descendant of N in the hierarchy are selected.
C1_SelectSelectsSubtree ==
    lastOp.kind = "select" =>
        \A d \in {lastOp.id} \cup ReachableFrom(lastOp.id) : isNodeSelected(d)

\* a select of a node with two or more descendants, one of them not a child
C1_Witness ==
    /\ lastOp.kind = "select"
    /\ Cardinality(ReachableFrom(lastOp.id) \ {lastOp.id}) >= 2
    /\ ReachableFrom(lastOp.id) # ChildIdsOf({lastOp.id})

\* C2: immediately after deselect(N) (handleNodeSelect with checked = false),
\* neither N nor any descendant of N is selected, whatever was selected
\* before.
C2_DeselectClearsSubtree ==
    lastOp.kind = "deselect" =>
        \A d \in {lastOp.id} \cup ReachableFrom(lastOp.id) : ~isNodeSelected(d)

\* a deselect of a node with descendants below a node that stays selected
C2_Witness ==
    /\ lastOp.kind = "deselect"
    /\ ReachableFrom(lastOp.id) \ {lastOp.id} # {}
    /\ \E a \in selectedNodes : lastOp.id \in ReachableFrom(a)

\* C8: isPartiallySelected(N) is true exactly when N has a descendant and
\* the number of selected descendants (N not counted) is at least one and
\* less than the number of descendants.
C8_PartialIffSomeNotAll ==
    \A id \in IdsOf(visibleNodes) :
        LET D == ReachableFrom(id) \ {id}
            k == Cardinality(D \cap selectedNodes)
        IN  PartiallySelected(id) <=> (D # {} /\ k >= 1 /\ k < Cardinality(D))

\* the same, of the first copy alone
C8_PartialIffSomeNotAllCopy1 ==
    copy = 1 => C8_PartialIffSomeNotAll

\* C9: no node is at the same time selected and partially selected
\* (copy 1, lines 316-326).
C9_SelectedExcludesPartial ==
    copy = 1 =>
        \A id \in IdsOf(visibleNodes) :
            ~(isNodeSelected(id) /\ isNodePartiallySelected(id))

-----------------------------------------------------------------------------
(* Claims on the traversals (SpecTrav) *)

\* C5: the ancestor walk made for a matching node terminates for every
\* record set, also one with a parent cycle.
C5_AncestorWalkTerminates ==
    [](trav.kind = "ancestorWalk" => <>trav.done)

\* C6: getDescendants(id) (getDescendantIds in the tree variant) terminates
\* for every record set, also one with a parent cycle, and expands no node
\* id more than once.
C6_GetDescendantsTerminates ==
    /\ [](trav.kind \in {"getDescendants", "getDescendantIds"}
              => NoDuplicates(trav.s.expanded))
    /\ [](trav.kind \in {"getDescendants", "getDescendantIds"}
              => <>trav.done)

\* getDescendants has returned for an id that lies on a parent cycle
C6_Witness ==
    /\ trav.kind = "getDescendants"
    /\ trav.done
    /\ trav.arg \in ReachableFrom(trav.arg)
    /\ Len(trav.s.expanded) >= 2

\* C10: getDescendants(id) returns exactly the ids reached from id by one
\* or more parent-to-children links, each once, and never id itself.
C10_GetDescendantsExact ==
    (trav.kind = "getDescendants" /\ trav.done) =>
        /\ SeqToSet(trav.s.descendants) = ReachableFrom(trav.arg) \ {trav.arg}
        /\ NoDuplicates(trav.s.descendants)

\* the same, of the first copy alone
C10_GetDescendantsExactCopy1 ==
    copy = 1 => C10_GetDescendantsExact

-----------------------------------------------------------------------------
(* Claims on the view projector (SpecView) *)

\* s contains t, letters compared without regard to case
ContainsIgnoringCase(s, t) ==
    \E k \in 0..(Len(s) - Len(t)) :
        \A j \in 1..Len(t) : LowerChar(s[k + j]) = LowerChar(t[j])

\* the node's label or id contains the debounced term
IsMatch(node) ==
    \/ ContainsIgnoringCase(node.name, debouncedSearchTerm)
    \/ ContainsIgnoringCase(node.id, debouncedSearchTerm)

\* node a is a proper ancestor of a match
IsAncestorOfMatch(a) ==
    \E i \in 1..Len(nodes) :
        IsMatch(nodes[i]) /\ nodes[i].id \in ReachableFrom(a.id)

\* search mode, and the render that computes the visible list has returned
SearchListShown == debouncedSearchTerm # <<>> /\ ~hung

\* C3: in search mode the visible list holds no node that is neither a
\* match nor a proper ancestor of a match.
C3_SearchListOnlyMatchesAndAncestors ==
    SearchListShown =>
        \A i \in 1..Len(visibleNodes) :
            IsMatch(visibleNodes[i]) \/ IsAncestorOfMatch(visibleNodes[i])

\* a search list with a match below an ancestor that does not match, and a
\* node of the record set left out of it
C3_Witness ==
    /\ SearchListShown
    /\ \E i \in 1..Len(visibleNodes) :
           ~IsMatch(visibleNodes[i]) /\ IsAncestorOfMatch(visibleNodes[i])
    /\ \E i \in 1..Len(nodes) : nodes[i].id \notin IdsOf(visibleNodes)

\* C4: in search mode the visible list holds every match and every proper
\* ancestor of every match.
C4_SearchListHasMatchesAndAncestors ==
    SearchListShown =>
        \A i \in 1..Len(nodes) :
            (IsMatch(nodes[i]) \/ IsAncestorOfMatch(nodes[i]))
                => nodes[i].id \in IdsOf(visibleNodes)

\* C7: a node whose parent id is non-empty and the id of no node is a root:
\* it is among the root nodes, and the plain-mode list with nothing
\* expanded shows it.
C7_DanglingParentIsRoot ==
    \A i \in 1..Len(nodes) :
        (Truthy(nodes[i].parent_id) /\ ~HasNode(nodes[i].parent_id)) =>
            /\ nodes[i].id \in IdsOf(rootNodes)
            /\ (debouncedSearchTerm = <<>> /\ expandedNodes = {})
                   => nodes[i].id \in IdsOf(visibleNodes)

-----------------------------------------------------------------------------
(* Claims on the value written to the host variable (SpecSel, SpecTree) *)

\* every sequence that lists each element of S once
Orderings(S) ==
    {p \in [1..Cardinality(S) -> S] : \A i, j \in DOMAIN p : p[i] = p[j] => i = j}

\* "<id> - <label>" of the node with that id
EntryOf(id) == id \o <<" ", "-", " ">> \o NodeById(id).name

RECURSIVE CommaJoined(_)
\* the entries one after another with one comma between neighbours
CommaJoined(entries) ==
    IF Len(entries) = 0 THEN <<>>
    ELSE IF Len(entries) = 1 THEN Head(entries)
    ELSE Head(entries) \o <<",">> \o CommaJoined(Tail(entries))

\* the values that serialize the set S of ids: a list of the ids in the tree
\* variant, the comma-joined entries in the two copies of HPOPlugin.tsx
SerializationsOf(S) ==
    IF copy = 3 THEN Orderings(S)
    ELSE {CommaJoined([i \in DOMAIN p |-> EntryOf(p[i])]) : p \in Orderings(S)}

\* the tree variant wrote a value that the host has not handed back yet
EchoPending == copy = 3 /\ ~isLocalDev /\ selectedOrder # hostValue

\* C11: every select or deselect writes the host variable, inside the
\* handler call, with the serialization of the selection as it is after the
\* toggle: once a toggle was made, the value last written serializes the
\* current selection.
C11_HostFollowsSelection ==
    (lastOp.kind # "none" /\ ~EchoPending) =>
        hostValue \in SerializationsOf(selectedNodes)

\* the same, of the two copies of HPOPlugin.tsx
C11_HostFollowsSelectionCopies12 ==
    copy \in {1, 2} => C11_HostFollowsSelection

\* C12: the value written is the empty string when the selection is empty;
\* otherwise it is one entry "<id> - <label>" for each selected id, none
\* missing, none repeated, none for an unselected id, the entries joined by
\* single commas with no space around them.
C12_ValueFormat ==
    (copy \in {1, 2} /\ lastOp.kind # "none") =>
        IF selectedNodes = {} THEN hostValue = <<>>
        ELSE \E p \in Orderings(selectedNodes) :
                 hostValue = CommaJoined([i \in DOMAIN p |-> EntryOf(p[i])])

\* a value of two or more entries was written, after an earlier deselect
\* or select left others in the selection
C12_Witness ==
    /\ copy \in {1, 2}
    /\ lastOp.kind # "none"
    /\ Cardinality(selectedNodes) >= 2
    /\ hostValue # Null
    /\ \E k \in 1..Len(hostValue) : hostValue[k] = ","

-----------------------------------------------------------------------------
(* Claims on the expansion set and the debounce (SpecView, SpecDebounce) *)

\* a root: a node with no parent, or with a parent id that is no node's id
IsRoot(node) == ~Truthy(node.parent_id) \/ ~HasNode(node.parent_id)

\* the record set has a node whose parent id is the id of no node
HasDanglingParent ==
    \E i \in 1..Len(nodes) :
        Truthy(nodes[i].parent_id) /\ ~HasNode(nodes[i].parent_id)

\* the last step was a timeout that changed the debounced term
DebouncedChanged ==
    lastView.kind = "fire" /\ debouncedSearchTerm # lastView.debounced

\* the ids of the matching nodes and of the proper ancestors of matching nodes
MatchAndAncestorIds ==
    {nodes[i].id : i \in {j \in 1..Len(nodes) :
                              IsMatch(nodes[j]) \/ IsAncestorOfMatch(nodes[j])}}

\* C13: when the debounced term becomes empty the expansion set becomes
\* empty, whatever was expanded by hand before or during the search, and
\* the plain-mode visible list is then exactly the root nodes.
C13_ClearCollapsesToRoots ==
    (DebouncedChanged /\ debouncedSearchTerm = <<>>) =>
        /\ expandedNodes = {}
        /\ IdsOf(visibleNodes) = IdsOf(SelectSeq(nodes, IsRoot))

\* the first half of C13 alone
C13_ClearEmptiesExpansion ==
    (DebouncedChanged /\ debouncedSearchTerm = <<>>) => expandedNodes = {}

\* C13 for the record sets with no dangling parent id
C13_ClearCollapsesToRootsNoDangling ==
    ~HasDanglingParent => C13_ClearCollapsesToRoots

\* the debounced term became empty with a hand-made change of the expansion
\* set before it
C13_Witness ==
    /\ DebouncedChanged
    /\ debouncedSearchTerm = <<>>
    /\ lastView.expanded # {}
    /\ lastView.expanded # autoExpandSet(lastView.debounced)

\* C14: whenever the debounced term becomes non-empty, or changes while
\* non-empty, the expansion set is replaced by exactly the matching nodes
\* and the proper ancestors of matching nodes; what was expanded before and
\* is not in that set is expanded no more.
C14_SearchReplacesExpansion ==
    (DebouncedChanged /\ debouncedSearchTerm # <<>>) =>
        expandedNodes = MatchAndAncestorIds

\* C14 for the record sets with no dangling parent id, when the render that
\* follows the change returns
C14_SearchReplacesExpansionWellFormed ==
    (~HasDanglingParent /\ ~hung) => C14_SearchReplacesExpansion

\* C15: the expansion set is empty at startup and is changed only by a user
\* toggle made while no search is active, by the auto-expand replacement
\* and by the clearing; a toggle made while a debounced term is active
\* leaves it as it was.
C15_ExpansionFrame ==
    /\ lastView.kind = "none" => expandedNodes = {}
    /\ lastView.kind = "type" => expandedNodes = lastView.expanded
    /\ (lastView.kind = "fire" /\ ~DebouncedChanged)
           => expandedNodes = lastView.expanded
    /\ (lastView.kind = "toggle" /\ debouncedSearchTerm # <<>>)
           => expandedNodes = lastView.expanded

\* C15 without its last clause
C15_ExpansionFrameButSearchToggle ==
    /\ lastView.kind = "none" => expandedNodes = {}
    /\ lastView.kind = "type" => expandedNodes = lastView.expanded
    /\ (lastView.kind = "fire" /\ ~DebouncedChanged)
           => expandedNodes = lastView.expanded

\* C16: a keystroke sets the raw term at once and cancels the pending
\* update before it schedules a new one: at most one update is pending, the
\* pending one carries the raw term, and whenever the debounced term
\* changes its new value is the raw term of that moment.
C16_DebounceTakesCurrentTerm ==
    /\ Len(timeouts) <= 1
    /\ \A k \in 1..Len(timeouts) : timeouts[k] = searchTerm
    /\ lastView.kind = "type" => timeouts = <<searchTerm>>
    /\ DebouncedChanged => debouncedSearchTerm = searchTerm

\* the debounced term changed from one non-empty term to another
C16_Witness ==
    /\ DebouncedChanged
    /\ lastView.debounced # <<>>
    /\ debouncedSearchTerm # <<>>
    /\ debouncedSearchTerm = searchTerm
    /\ timeouts = <<>>

-----------------------------------------------------------------------------
(* Claims on the load (SpecLoad) *)

\* C18: if one of the data chunks cannot be retrieved, the load ends in the
\* error state with the retry action, and no node list built from the
\* other chunks is installed.
C18_MissingChunkFailsLoad ==
    (copy \in {1, 3} /\ load.pc = "done" /\ load.failed) =>
        /\ Shown = "error"
        /\ RetryShown
        /\ ~load.ok

\* what does hold: the load fails when no chunk at all is retrieved
C18_NoChunkFailsLoad ==
    (copy \in {1, 3} /\ load.pc = "done" /\ load.failed /\ nodes = <<>>
         /\ ~load.ok) => Shown = "error"

\* C19: from the error state the retry action restarts the whole load; when
\* that load succeeds the tree is displayed and the error message is shown
\* no more.
C19_RetrySuccessShowsTree ==
    (load.pc = "done" /\ load.attempt > 1 /\ load.ok) =>
        /\ Shown = "tree"
        /\ error = Null

\* C19 of copy 2 alone
C19_RetrySuccessShowsTreeCopy2 ==
    copy = 2 => C19_RetrySuccessShowsTree

\* C20: the widget is in exactly one of loading, ready (the tree) and error:
\* loading from the start and as long as a load runs, ready or error once a
\* load has ended; while it is loading no tree row is shown and no step
\* changes the selection, the value written, the expansion set or the
\* debounced term.
C20_LoadStates ==
    /\ [](/\ load.pc \in {"idle", "fetch"} => Shown = "loading"
          /\ load.pc = "done" => Shown \in {"tree", "error"}
          /\ Shown = "loading" => rowsShown = {})
    /\ [][Shown = "loading" =>
              /\ selectedNodes' = selectedNodes
              /\ hostValue' = hostValue
              /\ expandedNodes' = expandedNodes
              /\ debouncedSearchTerm' = debouncedSearchTerm]_vars

\* a retried load in flight with a file already fetched, the error of the
\* load before still set
C20_Witness ==
    /\ Shown = "loading"
    /\ load.pc = "fetch"
    /\ load.attempt > 1
    /\ load.chunks # <<>>
    /\ error # Null

-----------------------------------------------------------------------------
(* Claims on the hierarchy index and the plain-mode list (SpecSel, SpecView) *)

C22_NoEmptyIdOrLabel ==
    load.pc = "done" /\ rawRows # <<>> =>
        /\ \A i \in 1..Len(nodes) : nodes[i].id # <<>> /\ nodes[i].name # <<>>
        /\ error = Null

\* C23: the level of every emitted node is an integer; it is 0 when the
\* LEVEL field is missing, empty or not numeric, and no error is raised.
C23_LevelIsInteger ==
    load.pc = "done" /\ rawRows # <<>> =>
        /\ \A i \in 1..Len(nodes) : ~nodes[i].level.nan
        /\ error = Null


(* Claims on the value read back from the host variable (SpecSel, SpecTree) *)
\* the kind of value that the variant writes to the host variable: the tree
\* variant an array of ids, the two copies of HPOPlugin.tsx a string
WrittenKind == IF copy = 3 THEN "array" ELSE "string"

\* C24: the host filter variable read back after the plugin wrote it gives
\* the selection set that was written, for the array of ids and for the
\* comma-joined string of "<id> - <label>" entries alike.
C24_ReadBackYieldsSelection ==
    (lastOp.kind # "none" /\ iframeLoaded /\ ~isLocalDev /\ ~EchoPending) =>
        selectedNodesMemo(WrittenKind, hostValue) = selectedNodes

\* the same, of the array of ids that the tree variant writes
C24_ReadBackYieldsSelectionArray ==
    copy = 3 => C24_ReadBackYieldsSelection


(* Claims on the plain-mode list (SpecView) *)
\* the pre-order listing of the nodes of list and, under each node whose id
\* is in the expansion set, of its children in input order
RECURSIVE PreOrderListing(_)
PreOrderListing(list) ==
    IF list = <<>> THEN <<>>
    ELSE <<Head(list)>>
         \o (IF Head(list).id \in expandedNodes
             THEN PreOrderListing(
                      SelectSeq(nodes, LAMBDA n : n.parent_id = Head(list).id))
             ELSE <<>>)
         \o PreOrderListing(Tail(list))

\* C25: in plain mode the visible list is the pre-order listing from the
\* root nodes in input order; a non-root node is in it exactly when its
\* parent is in it and the parent's id is in the expansion set; siblings keep
\* their input order and no node is listed twice.
C25_PlainListIsPreOrder ==
    debouncedSearchTerm = <<>> =>
        /\ visibleNodes = PreOrderListing(SelectSeq(nodes, IsRoot))
        /\ NoDuplicates(visibleNodes)
        /\ \A i \in 1..Len(nodes) :
               ~IsRoot(nodes[i]) =>
                   (nodes[i].id \in IdsOf(visibleNodes)
                       <=> /\ nodes[i].parent_id \in IdsOf(visibleNodes)
                           /\ nodes[i].parent_id \in expandedNodes)

\* the same, of the record sets with no dangling parent id
C25_PlainListIsPreOrderNoDangling ==
    ~HasDanglingParent => C25_PlainListIsPreOrder


\* C26: the view mode and the visible list follow the node set, the
\* expansion set and the debounced term, never the raw term: with the raw
\* term non-empty and the debounced term still empty the list is the
\* plain-mode list; with the raw term cleared and the debounced term still
\* non-empty it is the search-mode list of the debounced term.
C26_ViewIgnoresRawTerm ==
    /\ (searchTerm # <<>> /\ debouncedSearchTerm = <<>>) =>
           visibleNodes = PreOrderListing(rootNodes)
    /\ (searchTerm = <<>> /\ debouncedSearchTerm # <<>> /\ ~hung) =>
           /\ IdsOf(visibleNodes) \subseteq MatchAndAncestorIds
           /\ visibleNodes = searchVisibleNodes(debouncedSearchTerm)

\* a term was typed that would change the list, and the timeout has not
\* fired yet
C26_Witness ==
    /\ lastView.kind = "type"
    /\ searchTerm # <<>>
    /\ debouncedSearchTerm = <<>>
    /\ expandedNodes # {}
    /\ searchVisibleNodes(searchTerm) # visibleNodes


(* Claims on concurrent loads (SpecStrict) *)
\* the call l of the load function has started and has not ended
InFlight(l) == l.pc = "fetch"

\* C27: at most one data load is in flight at any time (a new load starts
\* only from the error state, after the load before it has ended), so no
\* late result of a superseded load overwrites the node list.
C27_OneLoadInFlight ==
    ~(InFlight(load) /\ InFlight(strictLoad))


(* Claims on the errors shown (SpecRender) *)
\* C28: once the widget is populated and ready, no action of the user
\* (typing a search string, toggling a checkbox, expanding or collapsing a
\* node) makes an error visible or moves the widget to the error state; the
\* error state is reached through a failed load only.
C28_UserActionsRaiseNoError ==
    load.ok => (Shown = "tree" /\ error = Null /\ ~renderThrew)


(* Frame claims on the selection (SpecFrame, SpecRender) *)
\* C29: select(N) and deselect(N) change the selected status of N and of the
\* descendants of N only: every other node, and so every ancestor of N that
\* is not also its descendant, keeps its status in the selection set and
\* its entry in the value written to the host.
C29_SelectFrame ==
    [][\/ selectedNodes' = selectedNodes /\ hostValue' = hostValue
       \/ \A i \in 1..Len(nodes) :
              LET id == nodes[i].id
              IN  \/ /\ (id \in selectedNodes') <=> (id \in selectedNodes)
                     /\ includes(hostValue', EntryOf(id))
                            <=> includes(hostValue, EntryOf(id))
                  \/ /\ lastOp'.kind # "none"
                     /\ id \in {lastOp'.id} \cup ReachableFrom(lastOp'.id)]_vars

\* a child was deselected whose parent, not among its descendants, is
\* selected and has its entry in the value written
C29_Witness ==
    /\ lastOp.kind = "deselect"
    /\ LET parent == NodeById(lastOp.id).parent_id
       IN  /\ parent \in selectedNodes
           /\ parent \notin {lastOp.id} \cup ReachableFrom(lastOp.id)
           /\ includes(hostValue, EntryOf(parent))


\* C30: typing, the debounce, the auto-expand and expanding or collapsing a
\* node never change the selection set or the value last written to the
\* host; and a select or deselect made while a search is active reaches
\* every descendant of the node in the full hierarchy, those that the
\* search-mode list leaves out included.
C30_ViewFrame ==
    /\ [][(\/ searchTerm' # searchTerm
           \/ debouncedSearchTerm' # debouncedSearchTerm
           \/ timeouts' # timeouts
           \/ expandedNodes' # expandedNodes
           \/ lastView' # lastView)
              => /\ selectedNodes' = selectedNodes
                 /\ hostValue' = hostValue]_vars
    /\ []((lastOp.kind = "select" /\ lastOp.term # <<>>) =>
              ({lastOp.id} \cup ReachableFrom(lastOp.id)) \subseteq selectedNodes)
    /\ []((lastOp.kind = "deselect" /\ lastOp.term # <<>>) =>
              ({lastOp.id} \cup ReachableFrom(lastOp.id)) \cap selectedNodes = {})

\* a node was selected while a search was active, one of its descendants was
\* not in the list of that search, and a step of the view followed
C30_Witness ==
    /\ lastOp.kind = "select"
    /\ lastOp.term # <<>>
    /\ \E d \in ReachableFrom(lastOp.id) :
           /\ d \notin IdsOf(searchVisibleNodes(lastOp.term))
           /\ d \in selectedNodes
    /\ debouncedSearchTerm # lastOp.term
    /\ hostValue # <<>>

=============================================================================
